---- MODULE Spec2Model ----
\* Portfolio Allocation Dashboard (src/App.py): a Streamlit script that is
\* re-executed from top to bottom on every user interaction.  One execution
\* reads the sidebar widgets, rebalances the slider weights, fetches prices,
\* values the portfolio and derives the metrics.  Only st.session_state
\* survives from one execution to the next; the state machine below is one
\* execution, with the widget values and the provider's answers as inputs.
\* The memo of st.cache_data, the plot, the volatility and the Sharpe ratio
\* are left out.
\*
\* Numbers are exact rationals <<numerator, denominator>> in lowest terms with
\* a positive denominator; the tolerances of the code (1e-6) and of the claims
\* (1e-9, 1e-6) are far above float64 rounding on the values modelled here.
EXTENDS Integers, Sequences, FiniteSets, TLC

\* ---------------------------------------------------------------- bounds
\* Number of tickers of default_assets that the model keeps (the source has 5).
NAssets == 3
\* Largest number of prices (tickers x rows) of one fetched price table.
MaxCells == 8

\* ------------------------------------------------------ program constants
SliderMin == 0
SliderMax == 100
InitialWeight == 20
FullAllocation == 100
initial_investment == 10000
TradingDays == 252

\* ------------------------------------------------------------- rationals
Abs(x) == IF x < 0 THEN -x ELSE x

RECURSIVE GCD(_, _)
GCD(a, b) == IF b = 0 THEN a ELSE GCD(b, a % b)

Rat(n, d) ==
    LET g == GCD(Abs(n), Abs(d))
        s == IF d < 0 THEN -1 ELSE 1
    IN  <<(s * n) \div g, (s * d) \div g>>

RInt(n) == <<n, 1>>
Zero == RInt(0)
One == RInt(1)

RAdd(x, y) ==
    LET g == GCD(x[2], y[2])
    IN  Rat(x[1] * (y[2] \div g) + y[1] * (x[2] \div g), (x[2] \div g) * y[2])
RNeg(x) == <<-x[1], x[2]>>
RSub(x, y) == RAdd(x, RNeg(y))
RMul(x, y) ==
    LET a == Rat(x[1], y[2])
        b == Rat(y[1], x[2])
    IN  <<a[1] * b[1], a[2] * b[2]>>
\* x / y for y # 0
RDiv(x, y) == RMul(x, Rat(y[2], y[1]))
RLess(x, y) == RSub(x, y)[1] < 0
RLeq(x, y) == RSub(x, y)[1] <= 0
RMax(x, y) == IF RLess(x, y) THEN y ELSE x
RMin(x, y) == IF RLess(y, x) THEN y ELSE x

\* sum(d.values()) of a dict d with rational values
RECURSIVE RSumOver(_, _)
RSumOver(f, S) ==
    IF S = {} THEN Zero
    ELSE LET a == CHOOSE x \in S : TRUE
         IN  RAdd(f[a], RSumOver(f, S \ {a}))
RSum(f) == RSumOver(f, DOMAIN f)

\* ------------------------------------------------------------- the inputs
AllAssets == <<"SPY", "IWM", "GDX", "BTC-USD", "TLT">>
default_assets == {AllAssets[i] : i \in 1..NAssets}
\* position of a ticker in default_assets; tickers are requested in this order
Index(a) == CHOOSE i \in 1..Len(AllAssets) : AllAssets[i] = a

\* Slider positions the user is given in the model: the two ends of the slider
\* and the weight the session starts with.
SliderValues == {SliderMin, InitialWeight, SliderMax}
\* The two dates the user is given; only their order is read by the script.
Dates == {1, 2}
\* Adjusted-close prices the provider is given (positive).
Prices == {1, 2}
\* What the provider answers for one ticker: data with an adjclose column, or
\* one of the failures of lines 97 and 101; a ticker after the first failure is
\* never requested.
Failures == {"none", "empty", "no_adjclose", "exception"}
RowsFor(n) == MaxCells \div n

EmptyDict == [a \in {} |-> Zero]
NoFrame == [none |-> TRUE, rows |-> 0, adjclose |-> [a \in {} |-> <<>>]]
NoSeries == [a \in {} |-> <<>>]
\* A metric value: a number, a power base ** exponent - 1 that is kept
\* unevaluated, or float NaN.
Number(x) == [kind |-> "number", value |-> x, exponent |-> One]
NaN == [kind |-> "nan", value |-> Zero, exponent |-> One]
NoMetrics ==
    [cumulative_return |-> Zero, annual_return |-> Number(Zero),
     max_drawdown |-> Zero, shown |-> FALSE]

VARIABLES
    pc,                   \* position of the running script
    ui,                   \* the message or output the main panel ends with
    asset_weights_state,  \* st.session_state.asset_weights_state
    selected_assets,      \* the multiselect's value
    start_date, end_date, \* the two date inputs
    sliders,              \* what each st.sidebar.slider returned
    asset_weights,        \* the dict asset_weights
    sidebar_msg,          \* which of the three sidebar messages is shown
    fetched,              \* the provider's answer for each selected ticker
    data_df,              \* what fetch_historical_data returned
    asset_returns,        \* data_df.pct_change().dropna()
    normalized_weights,   \* the dict normalized_weights
    portfolio_value,      \* the column portfolio_value['Portfolio']
    metrics               \* the performance metrics

vars == <<pc, ui, asset_weights_state, selected_assets, start_date, end_date,
          sliders, asset_weights, sidebar_msg, fetched, data_df, asset_returns,
          normalized_weights, portfolio_value, metrics>>

\* ------------------------------------------------------------ the sidebar
\* the clamp without its lower end
ClampUpperOnly(w) == RMin(RInt(SliderMax), w)

\* line 67: max(0.0, min(100.0, w))
Clamp(w) == RMax(RInt(SliderMin), RMin(RInt(SliderMax), w))

\* the whole difference given to one asset instead of an equal share to each
RebalanceOneAsset(aw) ==
    LET weight_difference == RSub(RInt(FullAllocation), RSum(aw))
    IN  IF weight_difference # Zero /\ DOMAIN aw # {}
        THEN LET first == CHOOSE a \in DOMAIN aw :
                              \A b \in DOMAIN aw : Index(a) <= Index(b)
             IN  [a \in DOMAIN aw |->
                     IF a = first THEN Clamp(RAdd(aw[a], weight_difference))
                     ELSE Clamp(aw[a])]
        ELSE aw

\* lines 57-68: the weights after "Rebalance Logic"
Rebalance(aw) ==
    LET current_total_weight == RSum(aw)
        weight_difference == RSub(RInt(FullAllocation), current_total_weight)
        num_assets_to_adjust == Cardinality(DOMAIN aw)
    IN  IF weight_difference # Zero /\ num_assets_to_adjust > 0
        THEN LET weight_increment ==
                     RDiv(weight_difference, RInt(num_assets_to_adjust))
             IN  [a \in DOMAIN aw |-> Clamp(RAdd(aw[a], weight_increment))]
        ELSE aw

\* lines 72-78: the message under the sliders
SidebarMessage(aw) ==
    LET weights_assigned == RSum(aw)
    IN  IF RLess(RInt(FullAllocation), weights_assigned) THEN "warning"
        ELSE IF RLess(weights_assigned, RInt(FullAllocation)) THEN "info"
        ELSE "success"

\* dict update: d with the entries of e written over it
Updated(d, e) ==
    [a \in DOMAIN d \cup DOMAIN e |-> IF a \in DOMAIN e THEN e[a] ELSE d[a]]

\* ------------------------------------------------------------- the fetch
AllOk(o) == \A a \in DOMAIN o : o[a] = "ok"

\* Answers the provider can give for the tickers, requested in order: all
\* succeed, or the first failure ends the loop (lines 94-103).
Answers(tickers) ==
    {o \in [tickers -> Failures \cup {"ok", "not_requested"}] :
        \/ AllOk(o)
        \/ \E f \in tickers :
              /\ o[f] \in Failures
              /\ \A a \in tickers \ {f} :
                    o[a] = IF Index(a) < Index(f) THEN "ok" ELSE "not_requested"}

\* a fetch that skips a ticker that fails and combines the others
fetch_skipping_failures(tickers, o, r, p) ==
    LET got == {a \in tickers : o[a] = "ok"}
    IN  IF got = {} THEN NoFrame
        ELSE [none |-> FALSE, rows |-> r, adjclose |-> [a \in got |-> p[a]]]

\* lines 92-110: None as soon as one ticker fails, else the combined frame
fetch_historical_data(tickers, o, r, p) ==
    IF \E a \in tickers : o[a] \in Failures THEN NoFrame
    ELSE IF tickers = {} THEN NoFrame
    ELSE [none |-> FALSE, rows |-> r, adjclose |-> p]

\* ---------------------------------------------------------- the valuation
\* Series.pct_change().dropna() of a sequence of rationals without gaps
PctChange(s) ==
    [i \in 1..(IF Len(s) = 0 THEN 0 ELSE Len(s) - 1) |->
        RSub(RDiv(s[i + 1], s[i]), One)]

\* line 122
AssetReturns(df) ==
    [a \in DOMAIN df.adjclose |->
        PctChange([i \in 1..df.rows |-> RInt(df.adjclose[a][i])])]

\* lines 129-138
NormalizedWeights(aw, sel) ==
    LET total_weight_for_norm == RSum(aw)
    IN  IF RLess(Zero, total_weight_for_norm)
        THEN [a \in DOMAIN aw |-> RDiv(aw[a], total_weight_for_norm)]
        ELSE [a \in sel |-> Rat(1, Cardinality(sel))]

\* lines 146-149: the weighted return of period j (1-based)
RECURSIVE DailyReturnOver(_, _, _, _)
DailyReturnOver(S, rets, nw, j) ==
    IF S = {} THEN Zero
    ELSE LET a == CHOOSE x \in S : TRUE
         IN  RAdd(IF a \in DOMAIN nw THEN RMul(rets[a][j], nw[a]) ELSE Zero,
                  DailyReturnOver(S \ {a}, rets, nw, j))
DailyReturn(sel, rets, nw, j) == DailyReturnOver(sel, rets, nw, j)

\* lines 126-127: one row per return period, all 0.0
EmptyPortfolio(k) == [i \in 1..k |-> Zero]

\* the assignment of line 142 lost on a copy of the column
SetInitialOnCopy(pv) == pv

\* line 142, on a frame with at least one row: the chained assignment writes
\* through to the frame (pandas without copy-on-write)
SetInitial(pv) == [pv EXCEPT ![1] = RInt(initial_investment)]

\* lines 145-150: rows 2..len(pv) from the row before and the return of the
\* period before (Python's i and i-1 are j-1 and j-2 here)
RECURSIVE Compound(_, _, _, _, _)
Compound(pv, j, sel, rets, nw) ==
    IF j > Len(pv) THEN pv
    ELSE Compound(
             [pv EXCEPT ![j] =
                 RMul(pv[j - 1], RAdd(One, DailyReturn(sel, rets, nw, j - 1)))],
             j + 1, sel, rets, nw)

\* ------------------------------------------------------------ the metrics
\* line 166
CumulativeReturn(pv) ==
    IF Len(pv) > 0 THEN RSub(RDiv(pv[Len(pv)], pv[1]), One) ELSE Zero

\* the annualized return left undefined when there is no period return
AnnualReturnUndefined(cum, n) ==
    IF n > 0
    THEN [kind |-> "power", value |-> RAdd(One, cum),
          exponent |-> Rat(TradingDays, n)]
    ELSE NaN

\* line 167: (1 + cumulative_return) ** (252 / n) - 1 is kept unevaluated as
\* its base and its exponent; 0 when there is no period return
AnnualReturn(cum, n) ==
    IF n > 0
    THEN [kind |-> "power", value |-> RAdd(One, cum),
          exponent |-> Rat(TradingDays, n)]
    ELSE Number(Zero)

\* line 172: cummax
RECURSIVE CumMax(_, _)
CumMax(pv, t) == IF t = 1 THEN pv[1] ELSE RMax(CumMax(pv, t - 1), pv[t])
\* the maximum of the whole column instead of the running maximum
OverallMax(pv, t) == CumMax(pv, Len(pv))

\* line 172: rolling_max at row t
RollingMax(pv, t) == CumMax(pv, t)

RECURSIVE SeqMin(_, _)
SeqMin(s, t) == IF t = 1 THEN s[1] ELSE RMin(SeqMin(s, t - 1), s[t])

\* lines 172-174
MaxDrawdown(pv) ==
    LET drawdown ==
            [t \in 1..Len(pv) |-> RSub(RDiv(pv[t], RollingMax(pv, t)), One)]
    IN  IF Len(pv) > 0 THEN SeqMin(drawdown, Len(pv)) ELSE Zero

\* lines 177-180: what st.metric is given for a metric value
Display(m) == IF m.kind = "nan" THEN "NaN" ELSE "percentage"

\* --------------------------------------------------------------- actions
Init ==
    /\ pc = "sidebar"
    /\ ui = ""
    /\ asset_weights_state = [a \in default_assets |-> RInt(InitialWeight)]
    /\ selected_assets = default_assets
    /\ start_date = 1
    /\ end_date = 2
    /\ sliders = EmptyDict
    /\ asset_weights = EmptyDict
    /\ sidebar_msg = ""
    /\ fetched = [a \in {} |-> "ok"]
    /\ data_df = NoFrame
    /\ asset_returns = NoSeries
    /\ normalized_weights = EmptyDict
    /\ portfolio_value = <<>>
    /\ metrics = NoMetrics

\* lines 15-53: the widgets are read; every slider value is stored in the
\* dict and in the session state
Sidebar ==
    /\ pc = "sidebar"
    /\ \E sel \in SUBSET default_assets :
       \E w \in [sel -> SliderValues] :
          /\ selected_assets' = sel
          /\ sliders' = [a \in sel |-> RInt(w[a])]
          /\ asset_weights' = [a \in sel |-> RInt(w[a])]
          /\ asset_weights_state' =
                 Updated(asset_weights_state, [a \in sel |-> RInt(w[a])])
          /\ pc' = IF sel = {} THEN "main" ELSE "rebalance"
    /\ \E s \in Dates, e \in Dates : start_date' = s /\ end_date' = e
    /\ UNCHANGED <<ui, sidebar_msg, fetched, data_df, asset_returns,
                   normalized_weights, portfolio_value, metrics>>

\* lines 56-78
RebalanceLogic ==
    /\ pc = "rebalance"
    /\ asset_weights' = Rebalance(asset_weights)
    /\ asset_weights_state' =
           IF asset_weights' # asset_weights
           THEN Updated(asset_weights_state, asset_weights')
           ELSE asset_weights_state
    /\ sidebar_msg' = SidebarMessage(asset_weights')
    /\ pc' = "main"
    /\ UNCHANGED <<ui, selected_assets, start_date, end_date, sliders, fetched,
                   data_df, asset_returns, normalized_weights, portfolio_value,
                   metrics>>

\* lines 85-86
NoAssetSelected ==
    /\ pc = "main"
    /\ selected_assets = {}
    /\ ui' = "warning: select at least one asset"
    /\ pc' = "stopped"
    /\ UNCHANGED <<asset_weights_state, selected_assets, start_date, end_date,
                   sliders, asset_weights, sidebar_msg, fetched, data_df,
                   asset_returns, normalized_weights, portfolio_value, metrics>>

\* lines 87-88
StartNotBeforeEnd ==
    /\ pc = "main"
    /\ selected_assets # {}
    /\ start_date >= end_date
    /\ ui' = "error: start date must be before end date"
    /\ pc' = "stopped"
    /\ UNCHANGED <<asset_weights_state, selected_assets, start_date, end_date,
                   sliders, asset_weights, sidebar_msg, fetched, data_df,
                   asset_returns, normalized_weights, portfolio_value, metrics>>

\* lines 89-112: the provider answers; the prices of a fetch that fails are
\* dropped with it, so the model gives them one row of the lowest price
Fetch ==
    /\ pc = "main"
    /\ selected_assets # {}
    /\ start_date < end_date
    /\ \E o \in Answers(selected_assets) :
       \E r \in 1..RowsFor(Cardinality(selected_assets)) :
       \E p \in [selected_assets -> [1..r -> Prices]] :
          /\ AllOk(o) \/ (r = 1 /\ \A a \in selected_assets : p[a][1] = 1)
          /\ fetched' = o
          /\ data_df' = fetch_historical_data(selected_assets, o, r, p)
    /\ pc' = "fetched"
    /\ UNCHANGED <<ui, asset_weights_state, selected_assets, start_date,
                   end_date, sliders, asset_weights, sidebar_msg, asset_returns,
                   normalized_weights, portfolio_value, metrics>>

\* lines 114-117: a combined frame of non-empty columns is never empty, so
\* the second message is never shown
FetchFailed ==
    /\ pc = "fetched"
    /\ IF data_df.none THEN TRUE ELSE data_df.rows = 0
    /\ ui' = IF data_df.none THEN "error: data fetch failed"
             ELSE "error: no data available"
    /\ pc' = "stopped"
    /\ UNCHANGED <<asset_weights_state, selected_assets, start_date, end_date,
                   sliders, asset_weights, sidebar_msg, fetched, data_df,
                   asset_returns, normalized_weights, portfolio_value, metrics>>

\* lines 119-150: returns, normalized weights and the portfolio value; the
\* assignment of line 142 raises IndexError on a frame without rows
PortfolioCalculation ==
    /\ pc = "fetched"
    /\ ~data_df.none /\ data_df.rows > 0
    /\ asset_returns' = AssetReturns(data_df)
    /\ normalized_weights' = NormalizedWeights(asset_weights, selected_assets)
    /\ LET k == data_df.rows - 1
       IN  IF k = 0
           THEN /\ portfolio_value' = EmptyPortfolio(k)
                /\ ui' = "exception: IndexError"
                /\ pc' = "crashed"
           ELSE /\ portfolio_value' =
                       Compound(SetInitial(EmptyPortfolio(k)), 2,
                                selected_assets, asset_returns',
                                normalized_weights')
                /\ ui' = "portfolio value"
                /\ pc' = "valued"
    /\ UNCHANGED <<asset_weights_state, selected_assets, start_date, end_date,
                   sliders, asset_weights, sidebar_msg, fetched, data_df,
                   metrics>>

\* lines 157-182 (the volatility and the Sharpe ratio, which need a square
\* root, are not part of the model)
PerformanceMetrics ==
    /\ pc = "valued"
    /\ LET returns == PctChange(portfolio_value)
           cumulative_return == CumulativeReturn(portfolio_value)
       IN  metrics' =
               [cumulative_return |-> cumulative_return,
                annual_return |-> AnnualReturn(cumulative_return, Len(returns)),
                max_drawdown |-> MaxDrawdown(portfolio_value),
                shown |-> TRUE]
    /\ ui' = "metrics"
    /\ pc' = "done"
    /\ UNCHANGED <<asset_weights_state, selected_assets, start_date, end_date,
                   sliders, asset_weights, sidebar_msg, fetched, data_df,
                   asset_returns, normalized_weights, portfolio_value>>

Next ==
    \/ Sidebar
    \/ RebalanceLogic
    \/ NoAssetSelected
    \/ StartNotBeforeEnd
    \/ Fetch
    \/ FetchFailed
    \/ PortfolioCalculation
    \/ PerformanceMetrics

Spec == Init /\ [][Next]_vars

\* ------------------------------------------------------------- the claims
Computed == pc \in {"valued", "done", "crashed"}
NumSelected == Cardinality(selected_assets)
SliderTotal == RSum(sliders)
LastValue == portfolio_value[Len(portfolio_value)]
NonDecreasing(pv) ==
    \A t \in 1..Len(pv) - 1 : RLeq(pv[t], pv[t + 1])
\* price ratio last / first of a ticker of the fetched frame
PriceRatio(a) == Rat(data_df.adjclose[a][data_df.rows], data_df.adjclose[a][1])

\* C1: with a single asset and k >= 1 return periods (k + 1 prices) the final
\* portfolio value is initial_investment * p_k / p_0 and the cumulative return
\* is p_k / p_0 - 1: every return period is applied.
C1_EveryReturnPeriodApplied ==
    (pc = "done" /\ NumSelected = 1 /\ data_df.rows >= 2) =>
        \A a \in selected_assets :
            (RLess(Zero, sliders[a]) /\ RLess(Zero, normalized_weights[a])) =>
                /\ LastValue = RMul(RInt(initial_investment), PriceRatio(a))
                /\ metrics.cumulative_return = RSub(PriceRatio(a), One)

\* C2: when the slider weights sum to more than 0, the normalized weight of
\* every selected asset is its slider weight over the sum of the slider
\* weights (so a slider at 0 gives weight 0).
C2_NormalizedFromSliderValues ==
    (pc \in {"valued", "done"} /\ RLess(Zero, SliderTotal)) =>
        \A a \in selected_assets :
            normalized_weights[a] = RDiv(sliders[a], SliderTotal)

\* C3: when the weights sum to more than 0 at normalization, every
\* normalized weight is in [0, 1] and the normalized weights sum to 1.
C3_NormalizedWeightsAreDistribution ==
    (Computed /\ RLess(Zero, RSum(asset_weights))) =>
        /\ DOMAIN normalized_weights = selected_assets
        /\ \A a \in selected_assets :
              /\ RLeq(Zero, normalized_weights[a])
              /\ RLeq(normalized_weights[a], One)
        /\ RSum(normalized_weights) = One

\* a run in which the clamp of the rebalance step acted and the weights
\* were normalized to unequal shares, one of them 0
C3_Witness ==
    /\ pc = "valued"
    /\ sidebar_msg = "warning"
    /\ \E a \in selected_assets : normalized_weights[a] = Zero
    /\ \E a \in selected_assets :
          RLess(Zero, normalized_weights[a]) /\ RLess(normalized_weights[a], One)

\* C4: when every slider is at 0 over n >= 1 selected assets, every selected
\* asset has normalized weight 1/n.
C4_AllZeroGivesEqualWeights ==
    (Computed /\ \A a \in selected_assets : sliders[a] = Zero) =>
        /\ DOMAIN normalized_weights = selected_assets
        /\ \A a \in selected_assets :
              normalized_weights[a] = Rat(1, NumSelected)

\* three assets, all sliders at 0, weights normalized
C4_Witness ==
    /\ pc = "valued"
    /\ NumSelected = 3
    /\ \A a \in selected_assets : sliders[a] = Zero

\* C5: with fewer than 2 price rows the run ends in a benign outcome, not in
\* an unhandled exception.
C5_InsufficientDataIsBenign ==
    (~data_df.none /\ data_df.rows < 2) => pc # "crashed"

\* C6: whenever a portfolio value series is produced, its first value is the
\* initial investment.
C6_FirstValueIsInitialInvestment ==
    pc \in {"valued", "done"} =>
        /\ Len(portfolio_value) >= 1
        /\ portfolio_value[1] = RInt(initial_investment)

\* a series of two assets whose second value has moved away from the first
C6_Witness ==
    /\ pc = "done"
    /\ NumSelected >= 2
    /\ Len(portfolio_value) >= 2
    /\ portfolio_value[2] # portfolio_value[1]

PrefixMax(pv, t) ==
    CHOOSE m \in {pv[s] : s \in 1..t} : \A s \in 1..t : RLeq(pv[s], m)
Drawdowns(pv) ==
    {RSub(RDiv(pv[t], PrefixMax(pv, t)), One) : t \in 1..Len(pv)}

\* C8: the maximum drawdown is the least of value[t] / max(value[0..t]) - 1,
\* it is <= 0, and it is 0 when the value series is non-decreasing.
C8_MaxDrawdown ==
    pc = "done" =>
        /\ metrics.max_drawdown \in Drawdowns(portfolio_value)
        /\ \A d \in Drawdowns(portfolio_value) : RLeq(metrics.max_drawdown, d)
        /\ RLeq(metrics.max_drawdown, Zero)
        /\ NonDecreasing(portfolio_value) => metrics.max_drawdown = Zero

\* a series of three or more values that never falls and ends above its start
C8_Witness ==
    /\ pc = "done"
    /\ Len(portfolio_value) >= 3
    /\ NonDecreasing(portfolio_value)
    /\ RLess(portfolio_value[1], LastValue)

\* C9: after the rebalance step the weights used downstream and written to
\* the session state are each in [0, 100] and sum to 100.
C9_RebalancedWeightsSumTo100 ==
    (pc \notin {"sidebar", "rebalance"} /\ selected_assets # {}) =>
        /\ \A a \in selected_assets :
              /\ RLeq(RInt(SliderMin), asset_weights[a])
              /\ RLeq(asset_weights[a], RInt(SliderMax))
              /\ asset_weights_state[a] = asset_weights[a]
        /\ RSum(asset_weights) = RInt(FullAllocation)

\* C10: the valuation and the metrics are reached only with a non-empty
\* selection, start date < end date and a fetch that succeeded for every
\* selected ticker with at least one row; when the fetch of one ticker fails,
\* the fetch returns no data at all and the valuation is not run.
C10_ValuationOnlyOnCompleteFetch ==
    /\ Computed =>
          /\ selected_assets # {}
          /\ start_date < end_date
          /\ DOMAIN fetched = selected_assets
          /\ \A a \in selected_assets : fetched[a] = "ok"
          /\ ~data_df.none
          /\ data_df.rows >= 1
          /\ DOMAIN data_df.adjclose = selected_assets
    /\ (\E a \in DOMAIN fetched : fetched[a] \in Failures) =>
          /\ data_df = NoFrame
          /\ pc \in {"fetched", "stopped"}

\* a fetch that failed on a later ticker after an earlier one was fetched
C10_Witness ==
    /\ pc = "stopped"
    /\ ui = "error: data fetch failed"
    /\ \E a \in selected_assets : fetched[a] = "ok"
    /\ \E a \in selected_assets : fetched[a] \in Failures
====
